---- MODULE Spec2Model ----
(***************************************************************************)
(* TcpHyblaI congestion controller (ns-3 TcpCongestionOps variant).        *)
(*                                                                         *)
(* Number representation                                                   *)
(*   uint32_t  : naturals modulo Word = 2^WordBits (the word is narrowed  *)
(*               so that wrap-around is reachable by the model checker).  *)
(*   double    : fixed point, FP units per 1.0, products and quotients    *)
(*               rounded toward zero; DInf stands for +infinity.          *)
(*   ns3::Time : an integer count of the time resolution unit (one        *)
(*               microsecond here), as ns3::Time holds an int64 count.    *)
(***************************************************************************)
EXTENDS Integers, Sequences, FiniteSets, TLC

\* ---------------------------------------------------------------- bounds
WordBits == 4
MaxSteps == 3

\* ------------------------------------------------------------- numerics
Word == 2 ^ WordBits
U32(x) == x % Word

FP == 1000
DInf == 2 ^ 30
DHalf == FP \div 2
DMul(a, b) == IF a = DInf \/ b = DInf THEN DInf ELSE (a * b) \div FP
DDiv(a, b) == IF a = DInf THEN DInf ELSE (a * FP) \div b
\* (double)x / (double)y of two integers, and a double times/over an integer
DRatio(x, y) == (x * FP) \div y
DTimesInt(a, k) == IF a = DInf THEN DInf ELSE a * k
DOverInt(a, k) == IF a = DInf THEN DInf ELSE a \div k
DAdd(a, b) == IF a = DInf \/ b = DInf THEN DInf ELSE a + b
DSub(a, b) == IF a = DInf THEN DInf ELSE a - b
DMax(a, b) == IF a < b THEN b ELSE a
UMin(a, b) == IF b < a THEN b ELSE a

\* static_cast<uint32_t>(double): truncation when the value fits the word.
\* Out of range the conversion is undefined; the outcomes are those of the
\* conversion instructions compilers emit: the low word of the 64-bit
\* truncation (0 for infinity) or saturation at the largest word.
CastU32(x) == IF x = DInf THEN {0, Word - 1}
              ELSE IF x \div FP >= Word THEN {U32(x \div FP), Word - 1}
              ELSE {x \div FP}

\* ns3::Time
TimePerMs == 1000
GetMilliSeconds(t) == t \div TimePerMs
\* Time * double: the int64x64 product rounded to the nearest unit.
TimeMul(t, d) == (t * d + DHalf) \div FP

\* std::pow(2, rho): rho is always a multiple of 1/50 (whole milliseconds
\* over the 50 ms reference), so the fractional power is tabulated.
Pow2Frac == << 1000, 1014, 1028, 1042, 1057, 1072, 1087, 1102, 1117, 1133,
               1149, 1165, 1181, 1197, 1214, 1231, 1248, 1266, 1283, 1301,
               1320, 1338, 1357, 1376, 1395, 1414, 1434, 1454, 1474, 1495,
               1516, 1537, 1558, 1580, 1602, 1625, 1647, 1670, 1693, 1717,
               1741, 1765, 1790, 1815, 1840, 1866, 1892, 1919, 1945, 1972 >>
Pow2(r) == IF r \div FP >= 16 THEN DInf
           ELSE (2 ^ (r \div FP)) * ((Pow2Frac[(((r % FP) * 50) \div FP) + 1] * FP) \div 1000)
PowSq(r) == DMul(r, r)

\* ------------------------------------------------------------- defaults
DefaultAlpha == 900
DefaultInFlightThresh == 800
DefaultRtoScalingFactor == 1000
DefaultRRtt == 50000

\* --------------------------------------------------------------- inputs
\* (Alpha, InFlightThreshold, RtoScalingFactor, RRTT) attribute settings;
\* RRTT is the attribute registered by the parent class TcpHybla.
Configs == { <<DefaultAlpha, DefaultInFlightThresh, DefaultRtoScalingFactor, DefaultRRtt>>,
             <<FP \div 2, 0, 0, DefaultRRtt \div 2>> }
RttSamples == {0, 50000, 99900, 150000}
MinRtts == {0, 50000}
SegSizes == {1, 4}
SsThreshs == {6, Word - 1}
InitCwnds == {0, 10}
\* (bytesInFlight, host srtt, nextTxSequence, lastAckedSeq); in the last
\* two the send sequence has wrapped past the word and the acknowledged one
\* has not.
HostViews == { <<0, 0, 1, 0>>,
               <<Word - 1, 100000, 10, 0>>,
               <<Word - 1, 0, 2, Word - 4>>,
               <<0, 100000, 2, Word - 4>> }
SegsAcked == {0, 1, 5}

VARIABLES ctl, tcb, last, fatal, assertsEnabled, steps

\* The file server (ServerThreads.java): the static request counter, each
\* handler thread's position in run(), the counter value a thread has
\* loaded, and the number of the log file it has opened (0: none).
VARIABLES requestNo, pc, loaded, logNo

ctlVars == <<ctl, tcb, last, fatal, assertsEnabled, steps>>
srvVars == <<requestNo, pc, loaded, logNo>>
vars == <<ctl, tcb, last, fatal, assertsEnabled, steps, requestNo, pc, loaded, logNo>>

\* The handler threads the accept loop may start.
MaxThreads == 3
ServerThreadIds == 1 .. MaxThreads

\* No connection has been accepted.
ServerNotStarted ==
    /\ requestNo = 0
    /\ pc = [t \in ServerThreadIds |-> "unborn"]
    /\ loaded = [t \in ServerThreadIds |-> 0]
    /\ logNo = [t \in ServerThreadIds |-> 0]

Insts == DOMAIN ctl

NewController(cfg) ==
    [ m_sRtt |-> 0,
      m_alpha |-> cfg[1],
      m_inFlightThresh |-> cfg[2],
      m_rtoScalingFactor |-> cfg[3],
      hybla_rRtt |-> cfg[4],
      m_rRtt |-> DefaultRRtt,
      m_rho |-> FP,
      m_cWndCnt |-> 0 ]

Snapshots ==
    { [ m_cWnd |-> w,
        m_ssThresh |-> th,
        m_segmentSize |-> sz,
        m_bytesInFlight |-> hv[1],
        m_minRtt |-> mr,
        m_srtt |-> hv[2],
        m_nextTxSequence |-> hv[3],
        m_lastAckedSeq |-> hv[4] ] :
      w \in InitCwnds, th \in SsThreshs, sz \in SegSizes,
      mr \in MinRtts, hv \in HostViews }

NoCall == [op |-> "none", inst |-> 0, n |-> 0, rtt |-> 0, ret |-> {}]

Init ==
    /\ \E cfg \in Configs : ctl = (1 :> NewController(cfg))
    /\ \E s \in Snapshots : tcb = (1 :> s)
    /\ last = NoCall
    /\ fatal = FALSE
    /\ assertsEnabled \in BOOLEAN
    /\ steps = 0
    /\ ServerNotStarted

GetCwndInSegments(t) == t.m_cWnd \div t.m_segmentSize

HyblaIRecalcParam_NoClamp(c, t) ==
    [c EXCEPT !.m_rho = DRatio(GetMilliSeconds(IF c.m_sRtt = 0 THEN t.m_minRtt ELSE c.m_sRtt),
                               GetMilliSeconds(c.m_rRtt))]

HyblaIRecalcParam(c, t) ==
    LET effectiveRtt == IF c.m_sRtt = 0 THEN t.m_minRtt ELSE c.m_sRtt
        candidateRho == DRatio(GetMilliSeconds(effectiveRtt),
                               GetMilliSeconds(c.m_rRtt))
    IN  [c EXCEPT !.m_rho = DMax(candidateRho, FP)]

SmoothRtt_SwappedWeights(c, rtt) ==
    IF c.m_sRtt = 0
    THEN rtt
    ELSE TimeMul(c.m_sRtt, FP - c.m_alpha) + TimeMul(rtt, c.m_alpha)

SmoothRtt(c, rtt) ==
    IF c.m_sRtt = 0
    THEN rtt
    ELSE TimeMul(c.m_sRtt, c.m_alpha) + TimeMul(rtt, FP - c.m_alpha)

PktsAckedCtl_RecalcFirst(c, t, rtt) ==
    LET c1 == IF rtt = t.m_minRtt THEN HyblaIRecalcParam(c, t) ELSE c
    IN  [c1 EXCEPT !.m_sRtt = SmoothRtt(c, rtt)]

PktsAckedCtl_ResetsCounter(c, t, rtt) ==
    LET c1 == [c EXCEPT !.m_sRtt = SmoothRtt(c, rtt), !.m_cWndCnt = 0]
    IN  IF rtt = t.m_minRtt THEN HyblaIRecalcParam(c1, t) ELSE c1

PktsAckedCtl(c, t, rtt) ==
    LET c1 == [c EXCEPT !.m_sRtt = SmoothRtt(c, rtt)]
    IN  IF rtt = t.m_minRtt THEN HyblaIRecalcParam(c1, t) ELSE c1

PktsAcked_SharedEstimator(i, n, rtt) ==
    /\ ~fatal /\ steps < MaxSteps
    /\ ctl' = [j \in Insts |-> PktsAckedCtl(ctl[j], tcb[i], rtt)]
    /\ last' = [op |-> "PktsAcked", inst |-> i, n |-> 0, rtt |-> rtt, ret |-> {}]
    /\ steps' = steps + 1
    /\ UNCHANGED <<tcb, fatal, assertsEnabled>>
    /\ UNCHANGED srvVars

PktsAcked(i, n, rtt) ==
    /\ ~fatal /\ steps < MaxSteps
    /\ ctl' = [ctl EXCEPT ![i] = PktsAckedCtl(ctl[i], tcb[i], rtt)]
    /\ last' = [op |-> "PktsAcked", inst |-> i, n |-> 0, rtt |-> rtt, ret |-> {}]
    /\ steps' = steps + 1
    /\ UNCHANGED <<tcb, fatal, assertsEnabled>>
    /\ UNCHANGED srvVars

ComputeScalingFactor_NoFloor(c, t) ==
    LET inflightRatio == IF t.m_cWnd > 0 THEN DRatio(t.m_bytesInFlight, t.m_cWnd) ELSE 0
        rtoRatio == DMax(IF c.m_sRtt = 0 THEN FP ELSE DRatio(2 * t.m_srtt, c.m_sRtt), FP)
        inflightFactor == IF inflightRatio > c.m_inFlightThresh
                          THEN DMax(FP - DMul(inflightRatio - c.m_inFlightThresh, DHalf),
                                    DHalf)
                          ELSE FP
        rtoFactor == DDiv(FP, FP + DMul(rtoRatio - FP, c.m_rtoScalingFactor))
        outstandingFactor == IF U32(t.m_nextTxSequence - t.m_lastAckedSeq)
                                  > U32((t.m_cWnd \div t.m_segmentSize) * 2)
                             THEN (9 * FP) \div 10 ELSE FP
    IN  DMul(DMul(inflightFactor, rtoFactor), outstandingFactor)

InflightRatio_NoZeroGuard(t) ==
    IF t.m_cWnd > 0 THEN DRatio(t.m_bytesInFlight, t.m_cWnd)
    ELSE DRatio(t.m_bytesInFlight + 1, 1)

InflightRatio(t) ==
    IF t.m_cWnd > 0 THEN DRatio(t.m_bytesInFlight, t.m_cWnd) ELSE 0

InflightFactorOf_NoDamping(r, th) == FP

\* double inflightFactor = 1.0; if (inflightRatio > m_inFlightThresh) {...}
InflightFactorOf(r, th) ==
    IF r > th THEN DMax(FP - DMul(r - th, DHalf), DHalf) ELSE FP

InflightFactor(c, t) == InflightFactorOf(InflightRatio(t), c.m_inFlightThresh)

RtoRatio_NoDoubling(c, t) ==
    DMax(IF c.m_sRtt = 0 THEN FP ELSE DRatio(t.m_srtt, c.m_sRtt), FP)

\* srtt.GetSeconds() * 2.0 over m_sRtt.GetSeconds(): both carry the same
\* seconds-per-unit factor, which cancels in the quotient.
RtoRatio(c, t) ==
    DMax(IF c.m_sRtt = 0 THEN FP ELSE DRatio(2 * t.m_srtt, c.m_sRtt), FP)

RtoFactor_IgnoresScaling(c, t) == DDiv(FP, RtoRatio(c, t))

RtoFactor(c, t) == DDiv(FP, FP + DMul(RtoRatio(c, t) - FP, c.m_rtoScalingFactor))

Outstanding(t) == U32(t.m_nextTxSequence - t.m_lastAckedSeq)

OutstandingFactor(t) ==
    IF Outstanding(t) > U32(GetCwndInSegments(t) * 2) THEN (9 * FP) \div 10 ELSE FP

ComputeScalingFactor(c, t) ==
    DMax(DMul(DMul(InflightFactor(c, t), RtoFactor(c, t)), OutstandingFactor(t)), DHalf)

\* NS_ASSERT(tcb->m_cWnd <= tcb->m_ssThresh): aborts when assertions are
\* compiled in, expands to nothing otherwise.
SlowStartAssertFails_Off(t) == FALSE

SlowStartAssertFails(t) == assertsEnabled /\ ~(t.m_cWnd <= t.m_ssThresh)

SetCwnd_AlsoThreshold(t, w) == [t EXCEPT !.m_cWnd = w, !.m_ssThresh = w]

\* tcb->m_cWnd = ...
SetCwnd(t, w) == [t EXCEPT !.m_cWnd = w]

SlowStartIncrement_NoSegmentSize(c, t) ==
    DMul(DSub(Pow2(c.m_rho), FP), ComputeScalingFactor(c, t))

SlowStartIncrement(c, t) ==
    DTimesInt(DMul(DSub(Pow2(c.m_rho), FP), ComputeScalingFactor(c, t)), t.m_segmentSize)

SlowStartCwnd_NoClamp(t, incr) == U32(t.m_cWnd + incr)

SlowStartCwnd(t, incr) == UMin(U32(t.m_cWnd + incr), t.m_ssThresh)

SlowStartRet_NoGuard(n) == U32(n - 1)

SlowStartRet(n) == IF n >= 1 THEN n - 1 ELSE 0

\* The body of SlowStart as one step of instance i.
SlowStartCall(i, n) ==
    /\ ~fatal
    /\ UNCHANGED <<ctl, assertsEnabled>>
    /\ UNCHANGED srvVars
    /\ IF SlowStartAssertFails(tcb[i])
       THEN /\ fatal' = TRUE
            /\ last' = [op |-> "SlowStart", inst |-> i, n |-> n, rtt |-> 0, ret |-> {}]
            /\ UNCHANGED tcb
       ELSE /\ fatal' = FALSE
            /\ last' = [op |-> "SlowStart", inst |-> i, n |-> n, rtt |-> 0,
                        ret |-> {SlowStartRet(n)}]
            /\ IF n >= 1
               THEN \E incr \in CastU32(SlowStartIncrement(ctl[i], tcb[i])) :
                        tcb' = [tcb EXCEPT ![i] = SetCwnd(tcb[i], SlowStartCwnd(tcb[i], incr))]
               ELSE UNCHANGED tcb

SlowStart(i, n) ==
    /\ steps < MaxSteps
    /\ steps' = steps + 1
    /\ SlowStartCall(i, n)

Accumulate_Once(cnt, increment, n) ==
    IF n > 0 THEN DAdd(cnt, increment) ELSE cnt

\* while (segmentsAcked > 0) { m_cWndCnt += rho^2 / segCwnd; segmentsAcked -= 1; }
RECURSIVE Accumulate(_, _, _)
Accumulate(cnt, increment, n) ==
    IF n > 0 THEN Accumulate(DAdd(cnt, increment), increment, n - 1) ELSE cnt

CaIncrement(c, t) ==
    IF GetCwndInSegments(t) = 0 THEN DInf
    ELSE DOverInt(PowSq(c.m_rho), GetCwndInSegments(t))

CaScaledInc_DropsSegmentSize(c, t, inc) == DTimesInt(ComputeScalingFactor(c, t), inc)

CaScaledInc(c, t, inc) == DTimesInt(DTimesInt(ComputeScalingFactor(c, t), inc), t.m_segmentSize)

CaCwnd(t, scaledInc) == U32(t.m_cWnd + scaledInc)

CaGrow_KeepsCredit(c, t, cnt) ==
    UNION { { <<cnt, U32(t.m_cWnd + scaledInc)>> :
                scaledInc \in CastU32(DTimesInt(DTimesInt(FP, inc), t.m_segmentSize)) } :
            inc \in CastU32(cnt) }

\* The (m_cWndCnt, m_cWnd) pairs the body of "if (m_cWndCnt >= 1.0)" can
\* leave, one per outcome of its two casts.
CaGrow(c, t, cnt) ==
    UNION { { <<DSub(cnt, DTimesInt(FP, inc)), CaCwnd(t, scaledInc)>> :
                scaledInc \in CastU32(CaScaledInc(c, t, inc)) } :
            inc \in CastU32(cnt) }

\* The body of CongestionAvoidance as one step of instance i.
CongestionAvoidanceCall(i, n) ==
    LET cnt == Accumulate(ctl[i].m_cWndCnt, CaIncrement(ctl[i], tcb[i]), n)
    IN  /\ ~fatal
        /\ last' = [op |-> "CongestionAvoidance", inst |-> i, n |-> n, rtt |-> 0, ret |-> {}]
        /\ UNCHANGED <<fatal, assertsEnabled>>
        /\ UNCHANGED srvVars
        /\ IF cnt >= FP
           THEN \E g \in CaGrow(ctl[i], tcb[i], cnt) :
                    /\ ctl' = [ctl EXCEPT ![i].m_cWndCnt = g[1]]
                    /\ tcb' = [tcb EXCEPT ![i] = SetCwnd(tcb[i], g[2])]
           ELSE /\ ctl' = [ctl EXCEPT ![i].m_cWndCnt = cnt]
                /\ UNCHANGED tcb

CongestionAvoidance(i, n) ==
    /\ steps < MaxSteps
    /\ steps' = steps + 1
    /\ CongestionAvoidanceCall(i, n)

CopyController_DropsCounter(c) == [c EXCEPT !.m_cWndCnt = 0]

\* CopyObject<TcpHyblaI>(this): the copy constructor; the forked socket
\* carries its own copy of the connection snapshot.
CopyController(c) ==
    [ m_sRtt |-> c.m_sRtt,
      m_alpha |-> c.m_alpha,
      m_inFlightThresh |-> c.m_inFlightThresh,
      m_rtoScalingFactor |-> c.m_rtoScalingFactor,
      hybla_rRtt |-> c.hybla_rRtt,
      m_rRtt |-> c.m_rRtt,
      m_rho |-> c.m_rho,
      m_cWndCnt |-> c.m_cWndCnt ]

Fork(i) ==
    /\ ~fatal /\ steps < MaxSteps
    /\ 2 \notin Insts
    /\ ctl' = ctl @@ (2 :> CopyController(ctl[i]))
    /\ tcb' = tcb @@ (2 :> tcb[i])
    /\ last' = [op |-> "Fork", inst |-> i, n |-> 0, rtt |-> 0, ret |-> {}]
    /\ steps' = steps + 1
    /\ UNCHANGED <<fatal, assertsEnabled>>
    /\ UNCHANGED srvVars

Next ==
    \/ \E i \in Insts, n \in SegsAcked, rtt \in RttSamples : PktsAcked(i, n, rtt)
    \/ \E i \in Insts, n \in SegsAcked : SlowStart(i, n)
    \/ \E i \in Insts, n \in SegsAcked : CongestionAvoidance(i, n)
    \/ \E i \in Insts : Fork(i)

Spec == Init /\ [][Next]_vars

\* ----------------------------------------------------------------------
\* ComputeScalingFactor on its own: the inputs are drawn over the whole
\* window range, and the controller is fresh or has taken one sample.
FactorCwnds == 0 .. (Word - 1)
FactorInFlights == {0, Word \div 2, Word - 1}
FactorSrtts == {0, 50000, 100000}
FactorSeqs == {1, 2, 10} \X {0, Word - 4}

FactorSnapshots ==
    { [ m_cWnd |-> w,
        m_ssThresh |-> Word - 1,
        m_segmentSize |-> sz,
        m_bytesInFlight |-> fl,
        m_minRtt |-> 50000,
        m_srtt |-> sr,
        m_nextTxSequence |-> sq[1],
        m_lastAckedSeq |-> sq[2] ] :
      w \in FactorCwnds, sz \in SegSizes, fl \in FactorInFlights,
      sr \in FactorSrtts, sq \in FactorSeqs }

FactorControllers(s) ==
    UNION { {NewController(cfg)}
              \cup { PktsAckedCtl(NewController(cfg), s, rtt) : rtt \in RttSamples } :
            cfg \in Configs }

InitFactor ==
    /\ \E s \in FactorSnapshots : \E c \in FactorControllers(s) :
          /\ ctl = (1 :> c)
          /\ tcb = (1 :> s)
    /\ last = NoCall
    /\ fatal = FALSE
    /\ assertsEnabled = TRUE
    /\ steps = 0
    /\ ServerNotStarted

AfterScalingFactor_StoresHostSrtt(c, t) == [c EXCEPT !.m_sRtt = t.m_srtt]

\* The controller after a ComputeScalingFactor call: the body assigns
\* local variables only.
AfterScalingFactor(c, t) == c

ScalingFactorCall(i) ==
    /\ ~fatal
    /\ ctl' = [ctl EXCEPT ![i] = AfterScalingFactor(ctl[i], tcb[i])]
    /\ last' = [op |-> "ComputeScalingFactor", inst |-> i, n |-> 0, rtt |-> 0,
                ret |-> {ComputeScalingFactor(ctl[i], tcb[i])}]
    /\ UNCHANGED <<tcb, fatal, assertsEnabled, steps>>
    /\ UNCHANGED srvVars

NextFactor == \E i \in Insts : ScalingFactorCall(i)

SpecFactor == InitFactor /\ [][NextFactor]_vars

\* ----------------------------------------------------------------------
\* The in-flight damping as a function of the ratio: every double ratio
\* from 0 to MaxRatio (bytesInFlight may exceed the window) is an input.
MaxRatio == 2 * FP
DampingRatios == 0 .. MaxRatio

InitDamping ==
    /\ \E cfg \in Configs : ctl = (1 :> NewController(cfg))
    /\ \E s \in { t \in FactorSnapshots : t.m_cWnd = 0 /\ t.m_srtt = 0 /\ t.m_segmentSize = 1
                                          /\ t.m_bytesInFlight = 0 /\ t.m_nextTxSequence = 1
                                          /\ t.m_lastAckedSeq = 0 } : tcb = (1 :> s)
    /\ last = NoCall
    /\ fatal = FALSE
    /\ assertsEnabled = TRUE
    /\ steps = 0
    /\ ServerNotStarted

\* The damping block of ComputeScalingFactor applied to ratio r; the
\* ratio and the factor are recorded as a pair.
InflightFactorCall(i, r) ==
    /\ ~fatal
    /\ last' = [op |-> "InflightFactor", inst |-> i, n |-> 0, rtt |-> 0,
                ret |-> {<<r, InflightFactorOf(r, ctl[i].m_inFlightThresh)>>}]
    /\ UNCHANGED <<ctl, tcb, fatal, assertsEnabled, steps>>
    /\ UNCHANGED srvVars

NextDamping == \E i \in Insts, r \in DampingRatios : InflightFactorCall(i, r)

SpecDamping == InitDamping /\ [][NextDamping]_vars

\* ----------------------------------------------------------------------
\* PktsAcked on its own, with samples of a few time units next to the
\* millisecond-sized ones, so that the rounding of the two products of the
\* smoothing update is reachable.
SmoothSamples == {0, 1, 5, 50000, 99900}

InitSmooth ==
    /\ \E cfg \in Configs : ctl = (1 :> NewController(cfg))
    /\ \E s \in { t \in Snapshots : t.m_cWnd = 10 /\ t.m_segmentSize = 1
                                     /\ t.m_bytesInFlight = 0 /\ t.m_srtt = 0 } :
          tcb = (1 :> s)
    /\ last = NoCall
    /\ fatal = FALSE
    /\ assertsEnabled = TRUE
    /\ steps = 0
    /\ ServerNotStarted

NextSmooth == \E i \in Insts, rtt \in SmoothSamples : PktsAcked(i, 0, rtt)

SpecSmooth == InitSmooth /\ [][NextSmooth]_vars

\* ----------------------------------------------------------------------
\* The host keeps calling a growth step with segmentsAcked >= 1 on a
\* window of whole segments, with segments of at least two bytes, and only
\* while no 32-bit sum or cast of the call can overflow.
ProgressSegSizes == {2, 4}
ProgressSegsAcked == {1, 2}

ProgressSnapshots(thresholds) ==
    { [ m_cWnd |-> k * sz,
        m_ssThresh |-> th,
        m_segmentSize |-> sz,
        m_bytesInFlight |-> hv[1],
        m_minRtt |-> 50000,
        m_srtt |-> hv[2],
        m_nextTxSequence |-> hv[3],
        m_lastAckedSeq |-> hv[4] ] :
      k \in {1, 2}, sz \in ProgressSegSizes, th \in thresholds, hv \in HostViews }

InitProgress(thresholds) ==
    /\ \E cfg \in Configs : ctl = (1 :> NewController(cfg))
    /\ \E s \in ProgressSnapshots(thresholds) : tcb = (1 :> s)
    /\ last = NoCall
    /\ fatal = FALSE
    /\ assertsEnabled = TRUE
    /\ steps = 0
    /\ ServerNotStarted

\* No sum or cast of a CongestionAvoidance call leaves the word: the
\* counter is finite and the window plus the whole segments of credit fits.
CaNoOverflow(c, t, n) ==
    LET cnt == Accumulate(c.m_cWndCnt, CaIncrement(c, t), n)
    IN  /\ cnt # DInf
        /\ t.m_cWnd + (cnt \div FP) * t.m_segmentSize < Word

CaKeepCalling(i, n) ==
    /\ CaNoOverflow(ctl[i], tcb[i], n)
    /\ CongestionAvoidanceCall(i, n)
    /\ UNCHANGED steps

InitCaProgress == InitProgress({Word - 1})

NextCaProgress == \E i \in Insts, n \in ProgressSegsAcked : CaKeepCalling(i, n)

SpecCaProgress == InitCaProgress /\ [][NextCaProgress]_vars /\ WF_vars(NextCaProgress)

\* No sum or cast of a SlowStart call leaves the word.
SsNoOverflow(c, t) ==
    /\ SlowStartIncrement(c, t) # DInf
    /\ t.m_cWnd + (SlowStartIncrement(c, t) \div FP) < Word

\* The host calls SlowStart only with m_cWnd <= m_ssThresh.
SsKeepCalling(i, n) ==
    /\ tcb[i].m_cWnd <= tcb[i].m_ssThresh
    /\ SsNoOverflow(ctl[i], tcb[i])
    /\ SlowStartCall(i, n)
    /\ UNCHANGED steps

InitSsProgress ==
    /\ InitProgress({6, Word - 4})
    /\ tcb[1].m_cWnd < tcb[1].m_ssThresh

NextSsProgress == \E i \in Insts, n \in ProgressSegsAcked : SsKeepCalling(i, n)

SpecSsProgress == InitSsProgress /\ [][NextSsProgress]_vars /\ WF_vars(NextSsProgress)

\* ----------------------------------------------------------------------
\* The file server: HTTPServer.main accepts connections and starts one
\* ServerThreads thread per connection; run() reads the request line and,
\* for a GET, opens "Log " + (++requestNo) + ".txt".  The pre-increment of
\* the static int is a load, an add and a store, with no synchronization.
InitServer ==
    /\ \E cfg \in Configs : ctl = (1 :> NewController(cfg))
    /\ \E s \in { t \in Snapshots : t.m_cWnd = 10 /\ t.m_segmentSize = 1
                                     /\ t.m_bytesInFlight = 0 /\ t.m_srtt = 0
                                     /\ t.m_minRtt = 0 /\ t.m_ssThresh = Word - 1 } :
          tcb = (1 :> s)
    /\ last = NoCall
    /\ fatal = FALSE
    /\ assertsEnabled = TRUE
    /\ steps = 0
    /\ ServerNotStarted

\* serverSocket.accept(); new ServerThreads(...) starts the thread.
Accept(t) ==
    /\ pc[t] = "unborn"
    /\ pc' = [pc EXCEPT ![t] = "readLine"]
    /\ UNCHANGED <<requestNo, loaded, logNo>>
    /\ UNCHANGED ctlVars

\* httpRequestInput = bufferedReader.readLine() and the branch on it.
ReadRequest(t, isGet) ==
    /\ pc[t] = "readLine"
    /\ pc' = [pc EXCEPT ![t] = IF isGet THEN "load" ELSE "done"]
    /\ UNCHANGED <<requestNo, loaded, logNo>>
    /\ UNCHANGED ctlVars

\* ++requestNo, first half: the current value of the static is loaded.
LoadRequestNo(t) ==
    /\ pc[t] = "load"
    /\ loaded' = [loaded EXCEPT ![t] = requestNo]
    /\ pc' = [pc EXCEPT ![t] = "store"]
    /\ UNCHANGED <<requestNo, logNo>>
    /\ UNCHANGED ctlVars

\* ++requestNo, second half: the loaded value plus one is stored and is
\* the number in the log file name.
StoreRequestNo(t) ==
    /\ pc[t] = "store"
    /\ requestNo' = loaded[t] + 1
    /\ logNo' = [logNo EXCEPT ![t] = loaded[t] + 1]
    /\ pc' = [pc EXCEPT ![t] = "done"]
    /\ UNCHANGED loaded
    /\ UNCHANGED ctlVars

NextServer ==
    \/ \E t \in ServerThreadIds : Accept(t)
    \/ \E t \in ServerThreadIds, isGet \in BOOLEAN : ReadRequest(t, isGet)
    \/ \E t \in ServerThreadIds : LoadRequestNo(t)
    \/ \E t \in ServerThreadIds : StoreRequestNo(t)

SpecServer == InitServer /\ [][NextServer]_vars

\* ======================================================================
\* Properties
\* ======================================================================
Abs(x) == IF x < 0 THEN -x ELSE x
\* The call made by the step into the primed state, and its target.
Called(op) == last'.op = op
Target == last'.inst

\* C1: rho >= 1.0 in every reachable state of every controller instance
\* (fresh, after PktsAcked / HyblaIRecalcParam, after growth steps, after
\* Fork).
C1_RhoAtLeastOne == \A i \in Insts : ctl[i].m_rho >= FP

\* A recalculation whose candidate (smoothed RTT below the reference RTT)
\* was below 1.0 and has been clamped.
C1_Witness ==
    /\ last.op = "PktsAcked"
    /\ last.rtt = tcb[last.inst].m_minRtt
    /\ ctl[last.inst].m_sRtt > 0
    /\ GetMilliSeconds(ctl[last.inst].m_sRtt) < GetMilliSeconds(ctl[last.inst].m_rRtt)
    /\ ctl[last.inst].m_rho = FP

\* C2: for every snapshot (cwnd 0 included) and every controller state,
\* ComputeScalingFactor returns f with 0.5 <= f <= 1.0.
C2_ScalingFactorRange ==
    \A i \in Insts :
        /\ DHalf <= ComputeScalingFactor(ctl[i], tcb[i])
        /\ ComputeScalingFactor(ctl[i], tcb[i]) <= FP

\* A growth step has run on a zero window and the factor of the resulting
\* snapshot is damped but within the range.
C2_Witness ==
    /\ last.op = "SlowStart" /\ last.n >= 1
    /\ tcb[last.inst].m_cWnd = 0
    /\ ComputeScalingFactor(ctl[last.inst], tcb[last.inst]) < FP

\* C3: a SlowStart call entered with cwnd <= ssthresh leaves
\* cwnd <= ssthresh.
C3_SlowStartKeepsThreshold ==
    [][ (Called("SlowStart") /\ tcb[Target].m_cWnd <= tcb[Target].m_ssThresh)
        => tcb'[Target].m_cWnd <= tcb'[Target].m_ssThresh ]_vars

\* A checked SlowStart call has grown the window up to the threshold.
C3_Witness ==
    /\ last.op = "SlowStart" /\ last.n >= 1 /\ last.ret # {}
    /\ assertsEnabled
    /\ tcb[last.inst].m_cWnd = tcb[last.inst].m_ssThresh
    /\ tcb[last.inst].m_ssThresh < Word - 1

\* C4 (as claimed): a SlowStart call entered with cwnd <= ssthresh never
\* leaves a smaller cwnd than it found.
C4_SlowStartNeverShrinks ==
    [][ (Called("SlowStart") /\ tcb[Target].m_cWnd <= tcb[Target].m_ssThresh)
        => tcb'[Target].m_cWnd >= tcb[Target].m_cWnd ]_vars

\* C5 (as claimed): a CongestionAvoidance call with segmentsAcked >= 1
\* never leaves a smaller cwnd than it found.
C5_CongAvoidNeverShrinks ==
    [][ (Called("CongestionAvoidance") /\ last'.n >= 1)
        => tcb'[Target].m_cWnd >= tcb[Target].m_cWnd ]_vars

C7_SmoothedRttNonZero ==
    last.op = "PktsAcked" => ctl[last.inst].m_sRtt # 0

\* C8: a SlowStart call that returns yields segmentsAcked - 1 when
\* segmentsAcked >= 1 and 0 when segmentsAcked = 0, in which case the window
\* and the controller state are unchanged; a call entered with
\* cwnd <= ssthresh returns.
C8_SlowStartReturn ==
    [][ Called("SlowStart") =>
          /\ (tcb[Target].m_cWnd <= tcb[Target].m_ssThresh => last'.ret # {})
          /\ (last'.ret # {} /\ last'.n >= 1 => last'.ret = {last'.n - 1})
          /\ (last'.ret # {} /\ last'.n = 0
                => last'.ret = {0} /\ ctl' = ctl /\ tcb' = tcb) ]_vars

\* SlowStart has been called with segmentsAcked = 0 and returned 0.
C8_Witness ==
    last.op = "SlowStart" /\ last.n = 0 /\ last.ret = {0} /\ ~fatal

\* C9 (as claimed): a SlowStart call entered with cwnd > ssthresh is fatal,
\* with no window mutation and no return value.
C9_ViolationAlwaysFatal ==
    [][ (Called("SlowStart") /\ tcb[Target].m_cWnd > tcb[Target].m_ssThresh)
        => (fatal' /\ tcb' = tcb /\ ctl' = ctl /\ last'.ret = {}) ]_vars

\* C9 (amended): in a build with assertions compiled in, a SlowStart call
\* entered with cwnd > ssthresh is fatal, with no window mutation and no
\* return value.
C9_ViolationFatalWhenAsserting ==
    [][ (Called("SlowStart") /\ assertsEnabled
           /\ tcb[Target].m_cWnd > tcb[Target].m_ssThresh)
        => (fatal' /\ tcb' = tcb /\ ctl' = ctl /\ last'.ret = {}) ]_vars

\* The assertion has fired on a SlowStart call made above the threshold.
C9_Witness ==
    /\ fatal /\ assertsEnabled /\ last.op = "SlowStart"
    /\ tcb[last.inst].m_cWnd > tcb[last.inst].m_ssThresh

C12_ForkCopies ==
    [][ Called("Fork") =>
          /\ 2 \in DOMAIN ctl'
          /\ ctl'[2].m_sRtt = ctl[Target].m_sRtt
          /\ ctl'[2].m_rho = ctl[Target].m_rho
          /\ ctl'[2].m_cWndCnt = ctl[Target].m_cWndCnt
          /\ ctl'[2].m_alpha = ctl[Target].m_alpha
          /\ ctl'[2].m_inFlightThresh = ctl[Target].m_inFlightThresh
          /\ ctl'[2].m_rtoScalingFactor = ctl[Target].m_rtoScalingFactor
          /\ ctl'[2].m_rRtt = ctl[Target].m_rRtt
          /\ ctl'[Target] = ctl[Target] ]_vars

\* A controller that holds a sample and fractional credit has been forked.
C12_Witness ==
    /\ last.op = "Fork"
    /\ ctl[2].m_sRtt > 0
    /\ ctl[2].m_cWndCnt > 0 /\ ctl[2].m_cWndCnt < FP

\* C13: a PktsAcked, SlowStart or CongestionAvoidance call on one instance
\* leaves the controller state of every other instance unchanged (original
\* and clone alike), so each instance evolves as if it ran alone.
C13_InstancesIndependent ==
    [][ (Called("PktsAcked") \/ Called("SlowStart") \/ Called("CongestionAvoidance"))
        => \A j \in Insts \ {Target} : ctl'[j] = ctl[j] /\ tcb'[j] = tcb[j] ]_vars

\* After a fork, a sample delivered to the clone has moved the clone's
\* estimate away from the original's.
C13_Witness ==
    /\ 2 \in Insts
    /\ last.op = "PktsAcked" /\ last.inst = 2
    /\ ctl[1].m_sRtt > 0
    /\ ctl[2].m_sRtt # ctl[1].m_sRtt

\* C14: in ComputeScalingFactor, outstanding is the true forward distance
\* from m_lastAckedSeq to m_nextTxSequence also when the latter has wrapped,
\* and the outstanding factor is 0.9 exactly when that distance exceeds
\* 2 * floor(m_cWnd / m_segmentSize), else 1.0.
ForwardDistance(t) ==
    IF t.m_nextTxSequence >= t.m_lastAckedSeq
    THEN t.m_nextTxSequence - t.m_lastAckedSeq
    ELSE t.m_nextTxSequence + Word - t.m_lastAckedSeq

C14_OutstandingTest ==
    last.op = "ComputeScalingFactor" =>
        LET t == tcb[last.inst]
        IN  /\ Outstanding(t) = ForwardDistance(t)
            /\ OutstandingFactor(t) =
                  IF ForwardDistance(t) > 2 * GetCwndInSegments(t)
                  THEN (9 * FP) \div 10 ELSE FP

\* The effective RTT of HyblaIRecalcParam for controller c on snapshot t.
EffectiveRtt(c, t) == IF c.m_sRtt = 0 THEN t.m_minRtt ELSE c.m_sRtt

\* C15: the reference RTT is a configuration option: after a recalculation
\* rho is max(effectiveRtt / configured RRTT, 1.0).
C15_RhoUsesConfiguredRRtt ==
    (last.op = "PktsAcked" /\ last.rtt = tcb[last.inst].m_minRtt) =>
        LET c == ctl[last.inst]
            t == tcb[last.inst]
        IN  c.m_rho = DMax(DRatio(GetMilliSeconds(EffectiveRtt(c, t)),
                                  GetMilliSeconds(c.hybla_rRtt)), FP)

\* C16: after a recalculation rho is max(effectiveRtt / m_rRtt, 1.0) with
\* the ratio taken on the full-precision durations, nothing below one
\* millisecond discarded.
C16_RhoKeepsSubMillisecond ==
    (last.op = "PktsAcked" /\ last.rtt = tcb[last.inst].m_minRtt) =>
        LET c == ctl[last.inst]
            t == tcb[last.inst]
        IN  c.m_rho = DMax(DRatio(EffectiveRtt(c, t), c.m_rRtt), FP)

\* C17: PktsAcked recomputes rho exactly when the sample equals the host's
\* m_minRtt, and then from the m_sRtt that already includes the sample; for
\* any other sample rho is left unchanged.
C17_RecalcAfterSmoothing ==
    [][ Called("PktsAcked") =>
          LET old == ctl[Target]
              new == ctl'[Target]
              t == tcb[Target]
          IN  IF last'.rtt = t.m_minRtt
              THEN new.m_rho =
                     DMax(DRatio(GetMilliSeconds(IF new.m_sRtt = 0 THEN t.m_minRtt
                                                 ELSE new.m_sRtt),
                                 GetMilliSeconds(new.m_rRtt)), FP)
              ELSE new.m_rho = old.m_rho ]_vars

\* A sample equal to m_minRtt was smoothed into an earlier estimate and rho
\* was recomputed above 1.0 from the smoothed value.
C17_Witness ==
    /\ last.op = "PktsAcked"
    /\ last.rtt = tcb[last.inst].m_minRtt
    /\ ctl[last.inst].m_sRtt # last.rtt
    /\ ctl[last.inst].m_rho > FP

\* C18: PktsAcked changes only m_sRtt and m_rho of the controller; the
\* snapshot (m_cWnd, m_ssThresh and every other field), m_cWndCnt and the
\* configuration are unchanged, whatever the sample.
C18_PktsAckedFrame ==
    [][ Called("PktsAcked") =>
          /\ tcb' = tcb
          /\ ctl'[Target] = [ctl[Target] EXCEPT !.m_sRtt = ctl'[Target].m_sRtt,
                                                !.m_rho = ctl'[Target].m_rho] ]_vars

\* A sample arrived at a controller that holds fractional credit, and the
\* credit is still there.
C18_Witness ==
    /\ last.op = "PktsAcked"
    /\ ctl[last.inst].m_sRtt > 0
    /\ ctl[last.inst].m_cWndCnt > 0
    /\ ctl[last.inst].m_cWndCnt < FP

\* C19: SlowStart and CongestionAvoidance change no snapshot field other
\* than m_cWnd and leave m_sRtt, m_rho and the configuration unchanged;
\* SlowStart also leaves m_cWndCnt unchanged.
C19_GrowthFrame ==
    [][ (Called("SlowStart") \/ Called("CongestionAvoidance")) =>
          /\ tcb'[Target] = [tcb[Target] EXCEPT !.m_cWnd = tcb'[Target].m_cWnd]
          /\ ctl'[Target] = [ctl[Target] EXCEPT !.m_cWndCnt = ctl'[Target].m_cWndCnt]
          /\ Called("SlowStart") => ctl'[Target].m_cWndCnt = ctl[Target].m_cWndCnt ]_vars

\* A slow-start step grew the window up to a threshold other than the
\* word maximum, on a controller that holds fractional credit.
C19_Witness ==
    /\ last.op = "SlowStart"
    /\ ~fatal
    /\ last.n >= 1
    /\ tcb[last.inst].m_cWnd = tcb[last.inst].m_ssThresh
    /\ tcb[last.inst].m_ssThresh < Word - 1
    /\ ctl[last.inst].m_cWndCnt > 0

\* C20 as stated: the factor is max(inflightFactor * rtoFactor *
\* outstandingFactor, 0.5) with rtoRatio = max(2 * srtt / m_sRtt, 1.0) in
\* every controller state; with m_sRtt zero the quotient of a positive host
\* srtt is unbounded and rtoFactor is 0 when m_rtoScalingFactor is positive
\* (the states where the stated quotient has no value are left out).
C20_FactorFormulaAsStated ==
    last.op = "ComputeScalingFactor" =>
        LET c == ctl[last.inst]
            t == tcb[last.inst]
            inflightRatio == IF t.m_cWnd > 0 THEN DRatio(t.m_bytesInFlight, t.m_cWnd) ELSE 0
            inflightFactor == IF inflightRatio > c.m_inFlightThresh
                              THEN DMax(FP - DMul(inflightRatio - c.m_inFlightThresh, DHalf), DHalf)
                              ELSE FP
            rtoFactor == IF c.m_sRtt = 0 THEN 0
                         ELSE DDiv(FP, FP + DMul(DMax(DRatio(2 * t.m_srtt, c.m_sRtt), FP) - FP,
                                                 c.m_rtoScalingFactor))
        IN  (c.m_sRtt # 0 \/ (t.m_srtt > 0 /\ c.m_rtoScalingFactor > 0)) =>
                last.ret = {DMax(DMul(DMul(inflightFactor, rtoFactor), OutstandingFactor(t)), DHalf)}

\* C20 (amended): the factor is max(inflightFactor * rtoFactor *
\* outstandingFactor, 0.5), where inflightRatio is m_bytesInFlight / m_cWnd
\* (0 for a zero window), inflightFactor is max(1 - 0.5 * (inflightRatio -
\* threshold), 0.5) above the threshold and 1.0 otherwise, rtoRatio is
\* max(2 * srtt / m_sRtt, 1.0) for a non-zero m_sRtt and 1.0 for a zero one,
\* rtoFactor is 1 / (1 + (rtoRatio - 1) * m_rtoScalingFactor), and
\* outstandingFactor is 0.9 or 1.0 by the 32-bit outstanding-data test.
C20_FactorFormula ==
    last.op = "ComputeScalingFactor" =>
        LET c == ctl[last.inst]
            t == tcb[last.inst]
            inflightRatio == IF t.m_cWnd > 0 THEN DRatio(t.m_bytesInFlight, t.m_cWnd) ELSE 0
            inflightFactor == IF inflightRatio > c.m_inFlightThresh
                              THEN DMax(FP - DMul(inflightRatio - c.m_inFlightThresh, DHalf), DHalf)
                              ELSE FP
            rtoRatio == IF c.m_sRtt = 0 THEN FP
                        ELSE DMax(DRatio(2 * t.m_srtt, c.m_sRtt), FP)
            rtoFactor == DDiv(FP, FP + DMul(rtoRatio - FP, c.m_rtoScalingFactor))
            outstandingFactor ==
                IF (t.m_nextTxSequence - t.m_lastAckedSeq) % Word
                     > (2 * (t.m_cWnd \div t.m_segmentSize)) % Word
                THEN (9 * FP) \div 10 ELSE FP
        IN  last.ret = {DMax(DMul(DMul(inflightFactor, rtoFactor), outstandingFactor), DHalf)}

\* The factor of a controller without a sample, on a host that has a
\* smoothed RTT and more in flight than the threshold allows.
C20_Witness ==
    /\ last.op = "ComputeScalingFactor"
    /\ ctl[last.inst].m_sRtt = 0
    /\ ctl[last.inst].m_rtoScalingFactor > 0
    /\ tcb[last.inst].m_srtt > 0
    /\ InflightRatio(tcb[last.inst]) > ctl[last.inst].m_inFlightThresh
    /\ \E f \in last.ret : DHalf < f /\ f < FP

\* C21 as stated: for ratios r1 < r2 above the threshold the factor of r2
\* is strictly below the factor of r1 whenever the latter is above 0.5, and
\* it is 0.5 once the floor has been reached.
C21_DampingStrictlyMonotone ==
    last.op = "InflightFactor" =>
        \A p \in last.ret : \A r2 \in DampingRatios :
            LET th == ctl[last.inst].m_inFlightThresh
                f2 == InflightFactorOf(r2, th)
            IN  (p[1] > th /\ p[1] < r2) =>
                    /\ p[2] > DHalf => f2 < p[2]
                    /\ p[2] = DHalf => f2 = DHalf

\* The smallest difference of two ratios that the factor arithmetic always
\* resolves: the excess is multiplied by 0.5, so two units stay apart.
DampingResolution == FP \div DHalf

\* C21 (amended): for ratios r1 < r2 above the threshold the factor of r2
\* is never above the factor of r1; it is strictly below it whenever the
\* factor of r1 is above 0.5 and r2 - r1 is at least the resolution of the
\* arithmetic; and it is 0.5 once the floor has been reached.
C21_DampingMonotone ==
    last.op = "InflightFactor" =>
        \A p \in last.ret : \A r2 \in DampingRatios :
            LET th == ctl[last.inst].m_inFlightThresh
                f2 == InflightFactorOf(r2, th)
            IN  (p[1] > th /\ p[1] < r2) =>
                    /\ f2 <= p[2]
                    /\ (p[2] > DHalf /\ r2 - p[1] >= DampingResolution) => f2 < p[2]
                    /\ p[2] = DHalf => f2 = DHalf

\* A ratio above the threshold whose factor is damped but above the floor,
\* with larger ratios left to compare it with.
C21_Witness ==
    /\ last.op = "InflightFactor"
    /\ \E p \in last.ret :
          /\ p[1] > ctl[last.inst].m_inFlightThresh
          /\ p[1] + DampingResolution <= MaxRatio
          /\ DHalf < p[2] /\ p[2] < FP

\* C22: the zero-denominator cases of ComputeScalingFactor are defined
\* results: with m_cWnd = 0 the inflight ratio is 0 (and the inflight
\* factor 1.0 for a threshold >= 0), with m_sRtt = 0 the RTO ratio and the
\* RTO factor are 1.0; the call returns the factor made of the remaining
\* terms and no error state is reached.
C22_ZeroDenominators ==
    last.op = "ComputeScalingFactor" =>
        LET c == ctl[last.inst]
            t == tcb[last.inst]
        IN  /\ ~fatal
            /\ t.m_cWnd = 0 =>
                  /\ InflightRatio(t) = 0
                  /\ c.m_inFlightThresh >= 0 => InflightFactor(c, t) = FP
                  /\ c.m_inFlightThresh >= 0 =>
                        last.ret = {DMax(DMul(RtoFactor(c, t), OutstandingFactor(t)), DHalf)}
            /\ c.m_sRtt = 0 =>
                  /\ RtoRatio(c, t) = FP
                  /\ RtoFactor(c, t) = FP
                  /\ last.ret = {DMax(DMul(InflightFactor(c, t), OutstandingFactor(t)), DHalf)}

\* The factor of a controller without a sample on a zero window, while the
\* host reports bytes in flight and a smoothed RTT.
C22_Witness ==
    /\ last.op = "ComputeScalingFactor"
    /\ tcb[last.inst].m_cWnd = 0
    /\ ctl[last.inst].m_sRtt = 0
    /\ tcb[last.inst].m_bytesInFlight > 0
    /\ tcb[last.inst].m_srtt > 0
    /\ last.ret = {OutstandingFactor(tcb[last.inst])}

\* C23: a SlowStart call with segmentsAcked >= 1 and m_cWnd <= m_ssThresh
\* leaves min(m_cWnd + floor((2^rho - 1) * factor * m_segmentSize),
\* m_ssThresh) as the window, the factor taken on the snapshot before the
\* update, whatever segmentsAcked >= 1 is; with rho = 1.0 and factor = 1.0
\* the unclamped increment is exactly one m_segmentSize.
C23_SlowStartFormula ==
    [][ (Called("SlowStart") /\ ~fatal' /\ last'.n >= 1
           /\ tcb[Target].m_cWnd <= tcb[Target].m_ssThresh) =>
          LET c == ctl[Target]
              t == tcb[Target]
              increment == SlowStartIncrement(c, t)
              grown == IF increment = DInf THEN DInf ELSE t.m_cWnd + (increment \div FP)
          IN  /\ tcb'[Target].m_cWnd = IF grown < t.m_ssThresh THEN grown ELSE t.m_ssThresh
              /\ (c.m_rho = FP /\ ComputeScalingFactor(c, t) = FP)
                    => increment \div FP = t.m_segmentSize ]_vars

\* C24: in CongestionAvoidance, a counter that is >= 1.0 after the
\* accumulation loses wholeSegments = floor(counter) and the window gains
\* floor(wholeSegments * factor * m_segmentSize), the factor taken on the
\* snapshot before the window changes; a counter below 1.0 leaves the
\* window unchanged (stated for a finite counter).
C24_CongAvoidFormula ==
    [][ Called("CongestionAvoidance") =>
          LET c == ctl[Target]
              t == tcb[Target]
              cnt == Accumulate(c.m_cWndCnt, CaIncrement(c, t), last'.n)
              wholeSegments == cnt \div FP
              gain == (ComputeScalingFactor(c, t) * wholeSegments * t.m_segmentSize) \div FP
          IN  cnt # DInf =>
                IF cnt >= FP
                THEN /\ ctl'[Target].m_cWndCnt = cnt - wholeSegments * FP
                     /\ tcb'[Target].m_cWnd = t.m_cWnd + gain
                ELSE /\ ctl'[Target].m_cWndCnt = cnt
                     /\ tcb'[Target].m_cWnd = t.m_cWnd ]_vars

\* The (m_cWndCnt, m_cWnd) pairs CongestionAvoidance can leave when the
\* counter after the accumulation is cnt.
CaOutcomes(c, t, cnt) ==
    IF cnt >= FP THEN CaGrow(c, t, cnt) ELSE {<<cnt, t.m_cWnd>>}

\* The closed form of the accumulation: counter + n * rho^2 / segments,
\* rounded once.
ClosedFormCounter(c, t, n) ==
    DAdd(c.m_cWndCnt, DOverInt(DTimesInt(PowSq(c.m_rho), n), GetCwndInSegments(t)))

\* C25 as stated: with floor(m_cWnd / m_segmentSize) >= 1 the accumulation
\* over n segments adds exactly n * rho^2 / segments to the counter, so the
\* loop and the closed-form multiply leave the same counter and window.
C25_LoopEqualsClosedForm ==
    [][ (Called("CongestionAvoidance") /\ GetCwndInSegments(tcb[Target]) >= 1) =>
          <<ctl'[Target].m_cWndCnt, tcb'[Target].m_cWnd>>
              \in CaOutcomes(ctl[Target], tcb[Target],
                             ClosedFormCounter(ctl[Target], tcb[Target], last'.n)) ]_vars

\* C25 (amended): with floor(m_cWnd / m_segmentSize) >= 1 the accumulation
\* adds the per-segment increment rho^2 / segments, rounded as the
\* arithmetic rounds it and with the segments of the window at call entry,
\* exactly n times; the counter and the window that result are those of
\* that n-fold sum, which lies below the closed form by less than one
\* rounding step per iteration.
C25_LoopAddsIncrementNTimes ==
    [][ (Called("CongestionAvoidance") /\ GetCwndInSegments(tcb[Target]) >= 1) =>
          LET c == ctl[Target]
              t == tcb[Target]
              n == last'.n
              increment == PowSq(c.m_rho) \div GetCwndInSegments(t)
              summed == IF c.m_cWndCnt = DInf THEN DInf ELSE c.m_cWndCnt + n * increment
              closed == ClosedFormCounter(c, t, n)
          IN  /\ <<ctl'[Target].m_cWndCnt, tcb'[Target].m_cWnd>> \in CaOutcomes(c, t, summed)
              /\ summed <= closed
              /\ closed # DInf => closed - summed <= n ]_vars

\* A batch of five segments was accumulated on a window of at least one
\* segment and left fractional credit.
C25_Witness ==
    /\ last.op = "CongestionAvoidance"
    /\ last.n = 5
    /\ GetCwndInSegments(tcb[last.inst]) >= 1
    /\ ctl[last.inst].m_rho > FP
    /\ ctl[last.inst].m_cWndCnt > 0
    /\ ctl[last.inst].m_cWndCnt < FP

\* C26: with a non-zero m_sRtt, a host srtt of at least m_sRtt and
\* m_rtoScalingFactor >= 1, ComputeScalingFactor returns exactly the floor
\* 0.5, whatever the inflight ratio and the outstanding data.
C26_FloorUnderHostRtt ==
    (/\ last.op = "ComputeScalingFactor"
     /\ ctl[last.inst].m_sRtt # 0
     /\ tcb[last.inst].m_srtt >= ctl[last.inst].m_sRtt
     /\ ctl[last.inst].m_rtoScalingFactor >= FP)
        => last.ret = {DHalf}

\* The floor was returned although neither the inflight nor the
\* outstanding term damps: the RTO term alone brought the product to 0.5.
C26_Witness ==
    /\ last.op = "ComputeScalingFactor"
    /\ ctl[last.inst].m_sRtt # 0
    /\ tcb[last.inst].m_srtt >= ctl[last.inst].m_sRtt
    /\ ctl[last.inst].m_rtoScalingFactor >= FP
    /\ InflightFactor(ctl[last.inst], tcb[last.inst]) = FP
    /\ OutstandingFactor(tcb[last.inst]) = FP
    /\ last.ret = {DHalf}

\* C27: with alpha in [0, 1] and durations held as integer time units, each
\* PktsAcked update leaves m_sRtt between its previous value and the new
\* sample (so that m_sRtt stays between the smallest and the largest
\* sample seen).
C27_SmoothedRttBetween ==
    [][ Called("PktsAcked") =>
          LET old == ctl[Target].m_sRtt
              new == ctl'[Target].m_sRtt
              rtt == last'.rtt
          IN  /\ (IF old < rtt THEN old ELSE rtt) <= new
              /\ new <= (IF old < rtt THEN rtt ELSE old) ]_vars

\* Some CongestionAvoidance call with segmentsAcked >= 1 stays clear of
\* 32-bit overflow.
CaCallsAllowed ==
    ~fatal /\ \E i \in Insts, n \in ProgressSegsAcked : CaNoOverflow(ctl[i], tcb[i], n)

\* C28: while the host keeps invoking CongestionAvoidance with
\* segmentsAcked >= 1 (m_segmentSize >= 2, m_cWnd >= m_segmentSize, no
\* 32-bit overflow) the window eventually strictly increases; and every
\* call that consumes whole segments of credit grows the window by at
\* least floor(wholeSegments * m_segmentSize / 2) >= 1 bytes.
C28_CongAvoidProgress ==
    /\ [][ Called("CongestionAvoidance") =>
            LET c == ctl[Target]
                t == tcb[Target]
                cnt == Accumulate(c.m_cWndCnt, CaIncrement(c, t), last'.n)
                wholeSegments == cnt \div FP
            IN  cnt >= FP =>
                  /\ (wholeSegments * t.m_segmentSize) \div 2 >= 1
                  /\ tcb'[Target].m_cWnd - t.m_cWnd
                        >= (wholeSegments * t.m_segmentSize) \div 2 ]_vars
    /\ \/ []<><<tcb'[1].m_cWnd > tcb[1].m_cWnd>>_vars
       \/ []<>(~CaCallsAllowed)

\* A call consumed credit and the window, which started as a whole number
\* of segments, has grown by a scaled (partial-segment) increment.
C28_Witness ==
    /\ last.op = "CongestionAvoidance"
    /\ ctl[last.inst].m_cWndCnt < FP
    /\ tcb[last.inst].m_cWnd % tcb[last.inst].m_segmentSize # 0
    /\ tcb[last.inst].m_cWnd > 2 * tcb[last.inst].m_segmentSize

\* Some SlowStart call is within its precondition and clear of 32-bit
\* overflow.
SsCallsAllowed ==
    ~fatal /\ \E i \in Insts : tcb[i].m_cWnd <= tcb[i].m_ssThresh /\ SsNoOverflow(ctl[i], tcb[i])

\* C29: while the host keeps invoking SlowStart with segmentsAcked >= 1
\* (m_segmentSize >= 2, finite threshold, no 32-bit overflow), every call
\* made with m_cWnd < m_ssThresh strictly increases the window without
\* passing the threshold, the window eventually equals m_ssThresh, and
\* calls made at the threshold leave it there.
C29_SlowStartProgress ==
    /\ [][ (Called("SlowStart") /\ last'.n >= 1) =>
            LET t == tcb[Target]
            IN  /\ t.m_cWnd < t.m_ssThresh =>
                      /\ tcb'[Target].m_cWnd > t.m_cWnd
                      /\ tcb'[Target].m_cWnd <= t.m_ssThresh
                /\ t.m_cWnd = t.m_ssThresh => tcb'[Target].m_cWnd = t.m_ssThresh ]_vars
    /\ <>(tcb[1].m_cWnd = tcb[1].m_ssThresh \/ ~SsCallsAllowed)
    /\ [](tcb[1].m_cWnd = tcb[1].m_ssThresh => [](tcb[1].m_cWnd = tcb[1].m_ssThresh))

\* The window, which started below the threshold, has reached it by
\* damped slow-start steps.
C29_Witness ==
    /\ last.op = "SlowStart"
    /\ last.n >= 1
    /\ tcb[last.inst].m_cWnd = tcb[last.inst].m_ssThresh
    /\ ComputeScalingFactor(ctl[last.inst], tcb[last.inst]) < FP

\* C30: every GET request is logged under a distinct number: no two
\* handler threads obtain the same value from ++requestNo, so no two
\* requests write to the same "Log N.txt".
C30_DistinctLogNumbers ==
    \A t1, t2 \in ServerThreadIds :
        (t1 # t2 /\ logNo[t1] # 0 /\ logNo[t2] # 0) => logNo[t1] # logNo[t2]
====
